---- MODULE Spec2Model ----
(***************************************************************************)
(* A model of CAPMBot (src/Task2-bot.py): the mean-variance performance    *)
(* evaluator, the optimality search over the best quotes, and the order    *)
(* lifecycle (phase guards, strategies, venue acknowledgements, watchdog). *)
(*                                                                         *)
(* Numbers.  The code works in floating-point dollars.  The model keeps    *)
(* every amount exact as an integer:                                       *)
(*   - prices, cash and payoff scenarios are integers in cents, as the     *)
(*     venue delivers them;                                                *)
(*   - a performance value p (dollars) is represented by                   *)
(*         p * RISK_DEN * 10^4 * n^2                                       *)
(*     where n is the number of payoff scenarios and the risk penalty is   *)
(*     riskNum / RISK_DEN (0.0175 = 7/400).  Comparisons of performances   *)
(*     are therefore comparisons of the exact real values.                 *)
(***************************************************************************)
EXTENDS Integers, Sequences, FiniteSets, TLC

VARIABLES
    payoffs,        \* self._payoffs: market id -> list of payoff scenarios (cents)
    riskNum,        \* self._risk_penalty, as riskNum / RISK_DEN
    holdings,       \* self.holdings (NoHoldings before the first snapshot)
    bestBid,        \* self._best_bid_dict, by market id (NoQuote for None)
    bestAsk,        \* self._best_ask_dict
    covMatrix,      \* self._cov_matrix
    expPayoffs,     \* self._exp_payoffs_matrix
    searchRet,      \* the value last returned by is_portfolio_optimal(True)
    time,           \* now - self._start_time, in ticks of 1/TicksPerMinute minute
    orderCount,     \* self._order_count
    waiting,        \* self._waiting_for_order
    fairBuy,        \* self._fair_buy_prices, by market id (scaled like a performance)
    fairSell,       \* self._fair_sell_prices
    myOrders,       \* the agent's orders: order id -> status, side, market, price, units
    cancels,        \* cancel orders sent and not yet answered, per target order id
    otherOrders,    \* the pending orders of the other traders
    cancelDecr,     \* history: decrements of orderCount by answers to cancels, per target
    last,           \* history: what the last handler saw and did
    prospOrders,    \* the list of prospective orders an evaluator is called with
    evalRet         \* the value last returned by an evaluator called on its own

pureVars == <<payoffs, riskNum, holdings, bestBid, bestAsk, covMatrix,
              expPayoffs, searchRet>>

lifeVars == <<time, orderCount, waiting, fairBuy, fairSell, myOrders, cancels,
              otherOrders, cancelDecr, last>>

evalVars == <<prospOrders, evalRet>>

vars == <<pureVars, lifeVars, evalVars>>

----------------------------------------------------------------------------
(* Program constants *)

RISK_NUM == 7
RISK_DEN == 400
CENTS == 100

SESSION_TIME == 10
MM_PROPORTION_NUM == 2
MM_PROPORTION_DEN == 10
MARGIN_MAX == 50
STARTUP_NUM == 2
STARTUP_DEN == 30
NOTE_PRICE == 495
NOTE_UNITS == 2
NOTE_COUNT_INC == 2
NOTE_MIN_UNITS == 2
LOW_CASH == 1000
STALE_DEPTH == 2

(* Bounds of the inputs *)

MaxUnits == 2
MaxCashSteps == 2
TicksPerMinute == 1
ExtraTicks == 1
MaxOrders == 2
MaxCancels == 2

----------------------------------------------------------------------------
(* Markets.  ITEM_RANK[m] is the rank of market m's item name in sorted    *)
(* order; the ids and the item names are ordered differently on purpose.   *)

ITEM_RANK == <<2, 1>>

Markets == DOMAIN ITEM_RANK

NumMarkets == Len(ITEM_RANK)

\* sorted(self._market_ids.keys()): the markets in increasing item name
SortedByItem ==
    [i \in 1..NumMarkets |-> CHOOSE m \in Markets : ITEM_RANK[m] = i]

\* markets.index(order.market.item)
ItemIndex(m) == CHOOSE i \in 1..NumMarkets : SortedByItem[i] = m

NoQuote == [side |-> "NONE", market |-> 0, price |-> 0, units |-> 0]

NoHoldings == [cash |-> -1, cashAvail |-> -1,
               units |-> [m \in Markets |-> -1],
               unitsAvail |-> [m \in Markets |-> -1]]

----------------------------------------------------------------------------
(* Arithmetic helpers *)

RECURSIVE SumSeq(_)
SumSeq(s) == IF s = <<>> THEN 0 ELSE Head(s) + SumSeq(Tail(s))

RECURSIVE DotSeq(_, _)
DotSeq(a, b) == IF a = <<>> THEN 0 ELSE Head(a) * Head(b) + DotSeq(Tail(a), Tail(b))

\* number of scenarios of every security (np.cov needs equal lengths)
NumScen(p) == Len(p[1])

----------------------------------------------------------------------------
(* Payoff model *)

\* _find_exp_payoffs_matrix: entry i is the scenario sum of the i-th item;
\* the expected payoff in dollars is this value / (CENTS * n)
FindExpPayoffsMatrix(p) ==
    [i \in 1..NumMarkets |-> SumSeq(p[SortedByItem[i]])]

\* _find_cov_matrix: entry [i][j] is n * sum_k x_ik x_jk - s_i s_j; the
\* population covariance in dollars^2 is this value / (n^2 * CENTS^2)
FindCovMatrix(p) ==
    [i \in 1..NumMarkets |-> [j \in 1..NumMarkets |->
        NumScen(p) * DotSeq(p[SortedByItem[i]], p[SortedByItem[j]])
          - SumSeq(p[SortedByItem[i]]) * SumSeq(p[SortedByItem[j]])]]

----------------------------------------------------------------------------
(* Orders *)

\* _make_order: a new LIMIT order owned by the agent
MakeOrder(market_id, oside, price, units) ==
    [side |-> oside, market |-> market_id, price |-> price, units |-> units]

\* _flip_oside keeping the units of each order
RECURSIVE FlipOsideKeepUnits(_)
FlipOsideKeepUnits(order_list) ==
    IF order_list = <<>> THEN <<>>
    ELSE LET o == Head(order_list)
             oside == IF o.side = "SELL" THEN "BUY" ELSE "SELL"
         IN  <<MakeOrder(o.market, oside, o.price, o.units)>>
               \o FlipOsideKeepUnits(Tail(order_list))

\* _flip_oside: one unit at the quote's price on the other side
RECURSIVE FlipOside(_)
FlipOside(order_list) ==
    IF order_list = <<>> THEN <<>>
    ELSE LET o == Head(order_list)
             oside == IF o.side = "SELL" THEN "BUY" ELSE "SELL"
         IN  <<MakeOrder(o.market, oside, o.price, 1)>> \o FlipOside(Tail(order_list))

----------------------------------------------------------------------------
(* Performance evaluation *)

\* _adj_cash charging price * units for each order
RECURSIVE AdjCashTimesUnits(_, _)
AdjCashTimesUnits(cash, orders) ==
    IF orders = <<>> THEN cash
    ELSE AdjCashTimesUnits(
             IF Head(orders).side = "BUY"
             THEN cash - Head(orders).price * Head(orders).units
             ELSE cash + Head(orders).price * Head(orders).units,
             Tail(orders))

\* _adj_cash, in cents
RECURSIVE AdjCash(_, _)
AdjCash(cash, orders) ==
    IF orders = <<>> THEN cash
    ELSE AdjCash(IF Head(orders).side = "BUY" THEN cash - Head(orders).price
                                              ELSE cash + Head(orders).price,
                 Tail(orders))

\* _adj_holdings: the unit vector (by item index) after the orders
RECURSIVE AdjHoldings(_, _)
AdjHoldings(unit_holdings, orders) ==
    IF orders = <<>> THEN unit_holdings
    ELSE LET index == ItemIndex(Head(orders).market)
             d == IF Head(orders).side = "BUY" THEN 1 ELSE -1
         IN  AdjHoldings([unit_holdings EXCEPT ![index] = @ + d], Tail(orders))

\* the units listed by market id
UnitHoldingsByMarketId(h) == [i \in 1..NumMarkets |-> h.units[i]]

\* sorted(holdings.assets.values(), key = item) -> units
UnitHoldings(h) == [i \in 1..NumMarkets |-> h.units[SortedByItem[i]]]

\* payoff_exp - risk_penalty * payoff_var, scaled by RISK_DEN * CENTS^2 * n^2
Performance(unit_holdings, cash) ==
    LET n == NumScen(payoffs)
        cu == [i \in 1..NumMarkets |-> DotSeq(covMatrix[i], unit_holdings)]
    IN  RISK_DEN * CENTS * n * DotSeq(unit_holdings, expPayoffs)
          + RISK_DEN * CENTS * n * n * cash
          - riskNum * DotSeq(unit_holdings, cu)

\* _find_performance leaving the cash out when no order list is given
FindPerformanceArgNoCashByDefault(h, given, prosp_orders) ==
    IF given
    THEN Performance(AdjHoldings(UnitHoldings(h), prosp_orders),
                     AdjCash(h.cash, prosp_orders))
    ELSE Performance(UnitHoldings(h), 0)

\* _find_performance(holdings, prosp_orders): given is FALSE when the
\* argument is left at its default (False)
FindPerformanceArg(h, given, prosp_orders) ==
    LET truthy == given /\ prosp_orders # <<>>
        cash_holdings == IF truthy THEN AdjCash(h.cash, prosp_orders) ELSE h.cash
        unit_holdings == IF truthy THEN AdjHoldings(UnitHoldings(h), prosp_orders)
                                   ELSE UnitHoldings(h)
    IN  Performance(unit_holdings, cash_holdings)

FindPerformance(h, prosp_orders) == FindPerformanceArg(h, TRUE, prosp_orders)

\* _find_performance with _adj_cash and _adj_holdings working on the
\* Holdings object itself
HoldingsAfterPerformanceInPlace(h, prosp_orders) ==
    [h EXCEPT !.cash = AdjCash(h.cash, prosp_orders),
              !.units = [m \in Markets |->
                  h.units[m]
                    + Cardinality({ k \in 1..Len(prosp_orders) :
                          prosp_orders[k].market = m /\ prosp_orders[k].side = "BUY" })
                    - Cardinality({ k \in 1..Len(prosp_orders) :
                          prosp_orders[k].market = m /\ prosp_orders[k].side # "BUY" })]]

\* the Holdings object after _find_performance(h, prosp_orders): the
\* function reads h.cash and the units of h.assets; the adjusted cash is a
\* local float and the adjusted units a new array (holdings + adjustment)
HoldingsAfterPerformance(h, prosp_orders) == h

FindPerformanceNoOrders(h) == FindPerformanceArg(h, FALSE, <<>>)

----------------------------------------------------------------------------
(* Optimality search *)

\* cash_req of _can_react
RECURSIVE CashReq(_)
CashReq(order_list) ==
    IF order_list = <<>> THEN 0
    ELSE (IF Head(order_list).side = "BUY" THEN Head(order_list).price ELSE 0)
           + CashReq(Tail(order_list))

\* asset_req_dict[market] of _can_react
RECURSIVE AssetReq(_, _)
AssetReq(order_list, m) ==
    IF order_list = <<>> THEN 0
    ELSE (IF Head(order_list).side = "SELL" /\ Head(order_list).market = m
             THEN 1 ELSE 0)
           + AssetReq(Tail(order_list), m)

\* _can_react without the test of the units available
CanReactNoAssetCheck(h, order_list) ==
    ~ (CashReq(order_list) > h.cashAvail)

\* _can_react
CanReact(h, order_list) ==
    IF CashReq(order_list) > h.cashAvail THEN FALSE
    ELSE \A m \in Markets : ~ (AssetReq(order_list, m) > h.unitsAvail[m])

\* combinations(range(lo..n), r) in itertools order
RECURSIVE Combinations(_, _, _)
RECURSIVE CombinationsFrom(_, _, _, _)
Combinations(lo, n, r) ==
    IF r = 0 THEN << <<>> >>
    ELSE CombinationsFrom(lo, lo, n, r)
CombinationsFrom(i, lo, n, r) ==
    IF i > n - r + 1 THEN <<>>
    ELSE LET rest == Combinations(i + 1, n, r - 1)
         IN  [k \in 1..Len(rest) |-> <<i>> \o rest[k]]
               \o CombinationsFrom(i + 1, lo, n, r)

\* [combo for r in range(n + 1) for combo in combinations(.., r)], as indices
RECURSIVE AllCombosFrom(_, _)
AllCombosFrom(r, n) ==
    IF r > n THEN <<>>
    ELSE Combinations(1, n, r) \o AllCombosFrom(r + 1, n)

\* the combinations with the largest r first
AllCombosLargestFirst(n) ==
    [k \in 1..Len(AllCombosFrom(0, n)) |->
        AllCombosFrom(0, n)[Len(AllCombosFrom(0, n)) + 1 - k]]

AllCombos(n) == AllCombosFrom(0, n)

\* the quotes a combo of indices stands for
ComboOf(best_quotes, idx) == [k \in 1..Len(idx) |-> best_quotes[idx[k]]]

\* list(asks.values()) + list(bids.values()), None filtered out; the dicts
\* are filled in increasing market id
RECURSIVE DictValues(_, _)
DictValues(d, m) ==
    IF m > NumMarkets THEN <<>>
    ELSE (IF m \in DOMAIN d /\ d[m] # NoQuote THEN <<d[m]>> ELSE <<>>)
           \o DictValues(d, m + 1)

BestQuotes(asks, bids) == DictValues(asks, 1) \o DictValues(bids, 1)

\* the loop of is_portfolio_optimal without the update of curr_performance
RECURSIVE SearchLoopKeepLast(_, _, _, _, _)
SearchLoopKeepLast(h, best_quotes, all_combos, k, acc) ==
    IF k > Len(all_combos) THEN acc
    ELSE LET combo == ComboOf(best_quotes, all_combos[k])
             resp_orders == FlipOside(combo)
             prosp_performance == FindPerformance(h, resp_orders)
         IN  IF prosp_performance > acc.curr /\ CanReact(h, resp_orders)
             THEN SearchLoopKeepLast(h, best_quotes, all_combos, k + 1,
                      [best |-> combo, found |-> TRUE, curr |-> acc.curr])
             ELSE SearchLoopKeepLast(h, best_quotes, all_combos, k + 1, acc)

\* the loop of is_portfolio_optimal with >= for >
RECURSIVE SearchLoopNonStrict(_, _, _, _, _)
SearchLoopNonStrict(h, best_quotes, all_combos, k, acc) ==
    IF k > Len(all_combos) THEN acc
    ELSE LET combo == ComboOf(best_quotes, all_combos[k])
             resp_orders == FlipOside(combo)
             prosp_performance == FindPerformance(h, resp_orders)
         IN  IF prosp_performance >= acc.curr /\ CanReact(h, resp_orders)
             THEN SearchLoopNonStrict(h, best_quotes, all_combos, k + 1,
                      [best |-> combo, found |-> TRUE, curr |-> prosp_performance])
             ELSE SearchLoopNonStrict(h, best_quotes, all_combos, k + 1, acc)

\* the loop of is_portfolio_optimal over all_combos[k..]; acc is
\* [best |-> best_combo or <<"None">>, found |-> best_combo is not None,
\*  curr |-> curr_performance]
RECURSIVE SearchLoop(_, _, _, _, _)
SearchLoop(h, best_quotes, all_combos, k, acc) ==
    IF k > Len(all_combos) THEN acc
    ELSE LET combo == ComboOf(best_quotes, all_combos[k])
             resp_orders == FlipOside(combo)
             prosp_performance == FindPerformance(h, resp_orders)
         IN  IF prosp_performance > acc.curr /\ CanReact(h, resp_orders)
             THEN SearchLoop(h, best_quotes, all_combos, k + 1,
                      [best |-> combo, found |-> TRUE, curr |-> prosp_performance])
             ELSE SearchLoop(h, best_quotes, all_combos, k + 1, acc)

\* the Holdings object after the loop of is_portfolio_optimal over
\* all_combos[k..]
RECURSIVE HoldingsAfterLoop(_, _, _, _)
HoldingsAfterLoop(h, best_quotes, all_combos, k) ==
    IF k > Len(all_combos) THEN h
    ELSE HoldingsAfterLoop(
             HoldingsAfterPerformance(h, FlipOside(ComboOf(best_quotes, all_combos[k]))),
             best_quotes, all_combos, k + 1)

\* the Holdings object after is_portfolio_optimal
HoldingsAfterSearch(h, asks, bids) ==
    LET best_quotes == BestQuotes(asks, bids)
    IN  HoldingsAfterLoop(HoldingsAfterPerformance(h, <<>>), best_quotes,
                          AllCombos(Len(best_quotes)), 1)

\* is_portfolio_optimal(return_combo = True): (is_optimal, best_combo)
IsPortfolioOptimal(h, asks, bids) ==
    LET best_quotes == BestQuotes(asks, bids)
        acc == SearchLoop(h, best_quotes, AllCombos(Len(best_quotes)), 1,
                   [best |-> <<>>, found |-> FALSE,
                    curr |-> FindPerformanceNoOrders(h)])
    IN  [optimal |-> ~ acc.found, combo |-> acc.best, called |-> TRUE,
         quotes |-> best_quotes]

NoSearch == [optimal |-> TRUE, combo |-> <<>>, called |-> FALSE, quotes |-> <<>>]

----------------------------------------------------------------------------
(* Time.  Elapsed time is time / TicksPerMinute minutes; the comparisons   *)
(* of the code are made exactly, cross-multiplied.                         *)

\* _find_time_elapsed() < 2/30
InStartup(t) == t * STARTUP_DEN < STARTUP_NUM * TicksPerMinute

\* _find_time_elapsed() < self._MM_PROPORTION * self._session_time
BeforeMmEnd(t) ==
    t * MM_PROPORTION_DEN < MM_PROPORTION_NUM * SESSION_TIME * TicksPerMinute

\* _find_time_elapsed() > self._MM_PROPORTION * self._session_time
AfterMmEnd(t) ==
    t * MM_PROPORTION_DEN > MM_PROPORTION_NUM * SESSION_TIME * TicksPerMinute

\* the first tick at or after the end of the market-making window
MmEndTick ==
    CHOOSE t \in 0..(SESSION_TIME * TicksPerMinute) :
        /\ ~ BeforeMmEnd(t)
        /\ \A u \in 0..(t - 1) : BeforeMmEnd(u)

MaxTime == MmEndTick + ExtraTicks

----------------------------------------------------------------------------
(* The order store *)

NoOrder == [status |-> "free", side |-> "NONE", market |-> 0, price |-> 0, units |-> 0]

OrderIds == 1..MaxOrders

\* orders created so far
NumCreated == Cardinality({ o \in OrderIds : myOrders[o].status # "free" })

\* [o for o in Order.all().values() if o.mine and o.is_pending], which is
\* also [o for o in Order.current().values() if o.mine]
MyPending == { o \in OrderIds : myOrders[o].status = "pending" }

\* a set of order ids as the list the store iterates over (increasing id)
RECURSIVE IdList(_)
IdList(ids) ==
    IF ids = {} THEN <<>>
    ELSE LET o == CHOOSE x \in ids : \A y \in ids : x <= y
         IN  <<o>> \o IdList(ids \ {o})

\* send_order of a list of new limit orders: ids are given in creation order
SendLimitOrders(store, orders) ==
    LET n == Cardinality({ o \in OrderIds : store[o].status # "free" })
    IN  [o \in OrderIds |->
            IF o > n /\ o <= n + Len(orders)
            THEN [status |-> "sent", side |-> orders[o - n].side,
                  market |-> orders[o - n].market, price |-> orders[o - n].price,
                  units |-> orders[o - n].units]
            ELSE store[o]]

----------------------------------------------------------------------------
(* The agent's bookkeeping while one handler runs: a record                *)
(*   count    self._order_count                                            *)
(*   waiting  self._waiting_for_order                                      *)
(*   cancels  the cancel orders in flight                                  *)
(*   sentC    the targets of the cancel orders this handler sent           *)
(*   cleared  whether this handler called _clear_orders                    *)

BotState ==
    [count |-> orderCount, waiting |-> waiting, cancels |-> cancels,
     sentC |-> <<>>, cleared |-> FALSE]

\* cancel_order = self._make_cancel_order(o); self.send_order(cancel_order);
\* self._waiting_for_order = True
SendCancel(st, o) ==
    [st EXCEPT !.cancels[o] = @ + 1, !.waiting = TRUE, !.sentC = Append(@, o)]

\* the loop of _clear_orders without the test of _waiting_for_order
RECURSIVE ClearLoopUnguarded(_, _)
ClearLoopUnguarded(st, ids) ==
    IF ids = <<>> THEN st
    ELSE ClearLoopUnguarded(SendCancel(st, Head(ids)), Tail(ids))

\* the loop of _clear_orders over my_orders
RECURSIVE ClearLoop(_, _)
ClearLoop(st, ids) ==
    IF ids = <<>> THEN st
    ELSE ClearLoop(IF ~ st.waiting THEN SendCancel(st, Head(ids)) ELSE st, Tail(ids))

\* _clear_orders without the is_pending filter
ClearOrdersAnyOrder(st) ==
    LET my_orders == IdList({ o \in OrderIds : myOrders[o].status # "free" })
        st1 == [st EXCEPT !.count = Len(my_orders), !.cleared = TRUE]
    IN  IF st1.count # 0 THEN ClearLoop(st1, my_orders) ELSE st1

\* _clear_orders without the recount of the owned pending orders
ClearOrdersNoRecount(st) ==
    LET my_orders == IdList(MyPending)
        st1 == [st EXCEPT !.cleared = TRUE]
    IN  IF st1.count # 0 THEN ClearLoop(st1, my_orders) ELSE st1

\* _clear_orders
ClearOrders(st) ==
    LET my_orders == IdList(MyPending)
        st1 == [st EXCEPT !.count = Len(my_orders), !.cleared = TRUE]
    IN  IF st1.count # 0 THEN ClearLoop(st1, my_orders) ELSE st1

\* _mm_condition without the call of _clear_orders
MmConditionNoClear(st, t) ==
    IF InStartup(t) THEN [ret |-> FALSE, st |-> st]
    ELSE IF BeforeMmEnd(t) /\ st.count = 0 THEN [ret |-> TRUE, st |-> st]
    ELSE [ret |-> FALSE, st |-> st]

\* _mm_condition without the upper end of the time window
MmConditionNoWindow(st, t) ==
    IF InStartup(t) THEN [ret |-> FALSE, st |-> st]
    ELSE IF st.count = 0 THEN [ret |-> TRUE, st |-> st]
    ELSE IF BeforeMmEnd(t) /\ st.count # 0 THEN [ret |-> FALSE, st |-> ClearOrders(st)]
    ELSE [ret |-> FALSE, st |-> st]

\* _mm_condition at time t: the value returned and the bookkeeping after
MmCondition(st, t) ==
    IF InStartup(t) THEN [ret |-> FALSE, st |-> st]
    ELSE IF BeforeMmEnd(t) /\ st.count = 0 THEN [ret |-> TRUE, st |-> st]
    ELSE IF BeforeMmEnd(t) /\ st.count # 0 THEN [ret |-> FALSE, st |-> ClearOrders(st)]
    ELSE [ret |-> FALSE, st |-> st]

\* _reactive_condition without the recount of the owned pending orders
ReactiveConditionNoResync(st, t) ==
    IF InStartup(t) THEN [ret |-> FALSE, st |-> st]
    ELSE IF AfterMmEnd(t) /\ st.count = 0 THEN [ret |-> TRUE, st |-> st]
    ELSE [ret |-> FALSE, st |-> st]

\* _reactive_condition at time t
ReactiveCondition(st, t) ==
    LET st1 == [st EXCEPT !.count = Cardinality(MyPending)]
    IN  IF InStartup(t) THEN [ret |-> FALSE, st |-> st1]
        ELSE IF AfterMmEnd(t) /\ st1.count = 0 THEN [ret |-> TRUE, st |-> st1]
        ELSE IF st1.count # 0 THEN [ret |-> FALSE, st |-> st1]
        ELSE [ret |-> FALSE, st |-> st1]

\* order_accepted clearing _waiting_for_order for a LIMIT order too
OrderAcceptedClearsOnLimit(st, otype) ==
    IF otype = "LIMIT" THEN [st EXCEPT !.waiting = FALSE]
    ELSE IF otype = "CANCEL"
         THEN [st EXCEPT !.waiting = FALSE, !.count = @ - 1]
         ELSE st

\* order_accepted without the decrement for a CANCEL order
OrderAcceptedNoDecrement(st, otype) ==
    IF otype = "CANCEL" THEN [st EXCEPT !.waiting = FALSE] ELSE st

\* order_accepted
OrderAccepted(st, otype) ==
    IF otype = "LIMIT" THEN st
    ELSE IF otype = "CANCEL"
         THEN [st EXCEPT !.waiting = FALSE, !.count = @ - 1]
         ELSE st

\* the bounds and ticks of a market, as the venue defines them
MARKET == [min_price |-> 0, max_price |-> 1000, min_units |-> 1, max_units |-> 10,
           price_tick |-> 5, unit_tick |-> 1]

\* the message order_rejected prints for an order
RejectMessage(o) ==
    IF o.price > MARKET.max_price \/ o.price < MARKET.min_price
        THEN "price out of range"
    ELSE IF o.units > MARKET.max_units \/ o.price < MARKET.min_units
        THEN "units out of range"
    ELSE IF o.price % MARKET.price_tick # 0
        THEN "price not divisible by price tick"
    ELSE IF o.units % MARKET.unit_tick # 0
        THEN "units not divisible by unit tick"
    ELSE "none"

\* order_rejected decrementing for rejected limit orders only
OrderRejectedLimitOnly(st, o) ==
    IF o.status = "sent" THEN [st EXCEPT !.count = @ - 1] ELSE st

\* order_rejected
OrderRejected(st, o) == [st EXCEPT !.count = @ - 1]

\* _unstuck_bot without the assignment to _waiting_for_order
UnstuckBotKeepsFlag(st) == st

\* _unstuck_bot
UnstuckBot(st) == IF st.waiting THEN [st EXCEPT !.waiting = FALSE] ELSE st

\* _find_order_depth: the units of the other traders' orders in the same
\* market that trade before the order
RECURSIVE UnitsOf(_)
UnitsOf(orders) ==
    IF orders = {} THEN 0
    ELSE LET x == CHOOSE y \in orders : TRUE
         IN  x.units + UnitsOf(orders \ {x})

FindOrderDepth(order, curr_others) ==
    LET orders_in_market == { x \in curr_others : x.market = order.market }
        shallow_orders ==
            IF order.side = "BUY"
            THEN { x \in orders_in_market : x.price > order.price }
            ELSE { x \in orders_in_market : x.price < order.price }
    IN  UnitsOf(shallow_orders)

\* the stale-order loop of received_orders over my_orders
RECURSIVE StaleLoop(_, _, _)
StaleLoop(st, ids, curr_others) ==
    IF ids = <<>> THEN st
    ELSE StaleLoop(
            IF FindOrderDepth(myOrders[Head(ids)], curr_others) > STALE_DEPTH
                 /\ ~ st.waiting
            THEN SendCancel(st, Head(ids)) ELSE st,
            Tail(ids), curr_others)

\* current_orders of received_orders: every pending order of the store,
\* the agent's (mine) and the other traders' (book)
CurrentOrders(book) ==
    { [side |-> x.side, market |-> x.market, price |-> x.price,
       units |-> x.units, mine |-> FALSE] : x \in book }
      \cup { [side |-> myOrders[o].side, market |-> myOrders[o].market,
              price |-> myOrders[o].price, units |-> myOrders[o].units,
              mine |-> TRUE] : o \in MyPending }

\* orders_in_market of received_orders
OrdersInMarket(current_orders, m) == { x \in current_orders : x.market = m }

\* an order of the book as the quote the dictionaries keep
QuoteOf(x) ==
    [side |-> x.side, market |-> x.market, price |-> x.price, units |-> x.units]

\* _get_best_ask without the filter on o.mine
GetBestAskAnyOwner(active_orders) ==
    LET sell_orders == { x \in active_orders : x.side = "SELL" }
    IN  IF sell_orders = {} THEN NoQuote
        ELSE QuoteOf(CHOOSE x \in sell_orders :
                        \A y \in sell_orders : y.price >= x.price)

\* _get_best_bid / _get_best_ask over the orders of one market
GetBestBid(active_orders) ==
    LET buy_orders == { x \in active_orders : ~ x.mine /\ x.side = "BUY" }
    IN  IF buy_orders = {} THEN NoQuote
        ELSE QuoteOf(CHOOSE x \in buy_orders :
                        \A y \in buy_orders : y.price <= x.price)

GetBestAsk(active_orders) ==
    LET sell_orders == { x \in active_orders : ~ x.mine /\ x.side = "SELL" }
    IN  IF sell_orders = {} THEN NoQuote
        ELSE QuoteOf(CHOOSE x \in sell_orders :
                        \A y \in sell_orders : y.price >= x.price)

----------------------------------------------------------------------------
(* Fair prices, margin, and the market-making quotes *)

\* the representation of one cent of performance (to_cents)
CentScale == RISK_DEN * CENTS * NumScen(payoffs) * NumScen(payoffs)

\* _find_fair_price without the subtraction of pre_performance
FindFairPriceNoBaseline(market_id, h, oside) ==
    FindPerformance(h, <<MakeOrder(market_id, oside, 0, 1)>>)

\* _find_fair_price
FindFairPrice(market_id, h, oside) ==
    FindPerformance(h, <<MakeOrder(market_id, oside, 0, 1)>>)
      - FindPerformanceNoOrders(h)

\* the Holdings object after the fair-price loop of received_holdings,
\* from market m: _find_fair_price for BUY, then for SELL
RECURSIVE HoldingsAfterFairPrices(_, _)
HoldingsAfterFairPrices(h, m) ==
    IF m > NumMarkets THEN h
    ELSE LET h1 == HoldingsAfterPerformance(HoldingsAfterPerformance(h, <<>>),
                       <<MakeOrder(m, "BUY", 0, 1)>>)
             h2 == HoldingsAfterPerformance(HoldingsAfterPerformance(h1, <<>>),
                       <<MakeOrder(m, "SELL", 0, 1)>>)
         IN  HoldingsAfterFairPrices(h2, m + 1)

\* _find_margin.  margin = ceil(MARGIN_MAX / (1 + exp(t - 1))) for
\* time_max = 2, so margin >= k exactly when t < 1 + ln((51 - k)/(k - 1));
\* MARGIN_STEPS[k - 1] is that bound in millionths of a minute, k = 2..50
MARGIN_STEPS ==
    << 4891820, 4178053, 3751535, 3442347, 3197224, 2992430, 2815289,
       2658228, 2516347, 2386294, 2265666, 2152679, 2045968, 1944461,
       1847297, 1753771, 1663294, 1575364, 1489548, 1405465, 1322773,
       1241162, 1160342, 1080042, 1000000, 919957, 839657, 758837, 677226,
       594534, 510451, 424635, 336705, 246228, 152702, 55538, -45969,
       -152680, -265667, -386295, -516348, -658229, -815290, -992431,
       -1197225, -1442348, -1751536, -2178054, -2891821 >>

\* grid points per minute when _find_margin is called on its own
MarginTicksPerMinute == 100

\* a curve that rises with the elapsed time
FindMarginAtRising(num, den) ==
    1 + Cardinality({ k \in 1..(MARGIN_MAX - 1) :
                        num * 1000000 >= MARGIN_STEPS[k] * den })

\* _find_margin at num / den minutes
FindMarginAt(num, den) ==
    1 + Cardinality({ k \in 1..(MARGIN_MAX - 1) :
                        num * 1000000 < MARGIN_STEPS[k] * den })

FindMargin(t) == FindMarginAt(t, TicksPerMinute)

FloorDiv(a, b) == a \div b

CeilDiv(a, b) == - ((- a) \div b)

\* _make_mm_order without the rounding to the price tick
MakeMmOrderNoRounding(market_id, prices, margin, oside) ==
    LET oprice == IF oside = "BUY"
                  THEN FloorDiv(prices - margin * CentScale, CentScale)
                  ELSE CeilDiv(prices + margin * CentScale, CentScale)
    IN  MakeOrder(market_id, oside, oprice, 1)

\* _make_mm_order; prices is a scaled amount of cents
MakeMmOrder(market_id, prices, margin, oside) ==
    LET tick == MARKET.price_tick
        oprice == IF oside = "BUY"
                  THEN FloorDiv(prices - margin * CentScale, tick * CentScale) * tick
                  ELSE CeilDiv(prices + margin * CentScale, tick * CentScale) * tick
    IN  MakeOrder(market_id, oside, oprice, 1)

\* _check_holdings comparing the cash with the price of one unit
CheckHoldingsUnitPrice(prosp_order, h) ==
    IF prosp_order.side = "BUY" /\ h.cashAvail < prosp_order.price
        THEN FALSE
    ELSE IF prosp_order.side = "SELL"
              /\ h.unitsAvail[prosp_order.market] < prosp_order.units
        THEN FALSE
    ELSE TRUE

\* _check_holdings
CheckHoldings(prosp_order, h) ==
    IF prosp_order.side = "BUY" /\ h.cashAvail < prosp_order.price * prosp_order.units
        THEN FALSE
    ELSE IF prosp_order.side = "SELL"
              /\ h.unitsAvail[prosp_order.market] < prosp_order.units
        THEN FALSE
    ELSE TRUE

\* the buy loop of _mm_strategy without the call of _check_holdings
RECURSIVE MmBuyOrdersNoCheck(_, _)
MmBuyOrdersNoCheck(m, margin) ==
    IF m \notin DOMAIN fairBuy THEN <<>>
    ELSE LET new_order == MakeMmOrder(m, fairBuy[m], margin, "BUY")
         IN  (IF fairBuy[m] > margin * CentScale THEN <<new_order>> ELSE <<>>)
               \o MmBuyOrdersNoCheck(m + 1, margin)

\* the buy loop of _mm_strategy over self._fair_buy_prices, from market m
RECURSIVE MmBuyOrders(_, _)
MmBuyOrders(m, margin) ==
    IF m \notin DOMAIN fairBuy THEN <<>>
    ELSE LET new_order == MakeMmOrder(m, fairBuy[m], margin, "BUY")
         IN  (IF fairBuy[m] > margin * CentScale /\ CheckHoldings(new_order, holdings)
                 THEN <<new_order>> ELSE <<>>)
               \o MmBuyOrders(m + 1, margin)

\* the sell loop of _mm_strategy over self._fair_sell_prices, from market m
RECURSIVE MmSellOrders(_, _)
MmSellOrders(m, margin) ==
    IF m \notin DOMAIN fairSell THEN <<>>
    ELSE LET new_order ==
                 IF fairSell[m] > 0
                 THEN MakeMmOrder(m, 0, margin, "SELL")
                 ELSE MakeMmOrder(m, - fairSell[m], margin, "SELL")
             quoted == fairSell[m] > 0 \/ - fairSell[m] > margin * CentScale
         IN  (IF quoted /\ CheckHoldings(new_order, holdings)
                 THEN <<new_order>> ELSE <<>>)
               \o MmSellOrders(m + 1, margin)

\* _mm_strategy once the margin is found: the limit orders it sends, in
\* order
MmStrategyAt(margin) ==
    MmBuyOrders(1, margin) \o MmSellOrders(1, margin)

\* _mm_strategy at time t
MmStrategy(t) == MmStrategyAt(FindMargin(t))

\* the orders _reactive_strategy sends for the result of the search
RECURSIVE ReactiveOrders(_)
ReactiveOrders(resp_orders) ==
    IF resp_orders = <<>> THEN <<>>
    ELSE LET o == Head(resp_orders)
         IN  <<MakeOrder(o.market, o.side, o.price, o.units)>>
               \o ReactiveOrders(Tail(resp_orders))

\* _reactive_strategy sending the combo as it is
ReactiveStrategyUnflipped(found) ==
    IF ~ found.optimal THEN ReactiveOrders(found.combo) ELSE <<>>

\* _reactive_strategy for the result found of is_portfolio_optimal: the
\* orders it sends, in order
ReactiveStrategy(found) ==
    IF ~ found.optimal THEN ReactiveOrders(FlipOside(found.combo)) ELSE <<>>

\* the note market: sorted(self._market_ids.values())[-1]
NoteId == CHOOSE m \in Markets : \A k \in Markets : k <= m

\* the note-for-cash sale without the test of _order_count
NoteSaleNoCountCheck(h, count) ==
    LET order == MakeOrder(NoteId, "SELL", NOTE_PRICE, NOTE_UNITS)
    IN  IF h.cash < LOW_CASH /\ h.units[NoteId] > NOTE_MIN_UNITS
             /\ CheckHoldings(order, h)
        THEN <<order>> ELSE <<>>

\* the note-for-cash sale of received_holdings: the orders it sends
NoteSale(h, count) ==
    LET order == MakeOrder(NoteId, "SELL", NOTE_PRICE, NOTE_UNITS)
    IN  IF h.cash < LOW_CASH /\ h.units[NoteId] > NOTE_MIN_UNITS /\ count = 0
             /\ CheckHoldings(order, h)
        THEN <<order>> ELSE <<>>

----------------------------------------------------------------------------
(* The order lifecycle: the handlers the venue and the timers call *)

\* no evaluator has been called on its own
NoEval ==
    [op |-> "none", value |-> 0, default |-> 0, market |-> 0, side |-> "NONE",
     arg |-> 0, sent |-> <<>>]

NoMatrix == <<>>

EmptyDict == <<>>

NoLast ==
    [op |-> "init", arg |-> 0, cntZero |-> TRUE, dcnt |-> 0, waitKept |-> TRUE,
     mmCalled |-> FALSE, mmRet |-> FALSE, mmCleared |-> FALSE,
     rcCalled |-> FALSE, rcRet |-> FALSE, startZero |-> TRUE,
     sent |-> <<>>, sentC |-> <<>>, search |-> NoSearch, msg |-> "none",
     sweep |-> <<>>]

\* the record of a handler op (with argument arg) that leaves the
\* bookkeeping as st:
\*   cntZero   orderCount was 0 when the handler started
\*   dcnt      the change of orderCount
\*   waitKept  awaitingResponse is as it was
\*   startZero orderCount was 0 when the handler began to submit limit orders
\*   sweep     the targets of the cancel orders the stale-order loop sent
Done(op, arg, st) ==
    [NoLast EXCEPT !.op = op, !.arg = arg, !.cntZero = (orderCount = 0),
                   !.dcnt = st.count - orderCount,
                   !.waitKept = (st.waiting = waiting),
                   !.startZero = (orderCount = 0), !.sentC = st.sentC]

\* the payoffs of the markets of the session: a stock and the note
LifePayoffs == << <<0, 1000>>, <<500, 500>> >>

\* the holdings snapshots the venue delivers
LifeHoldings ==
    { [cash |-> 800, cashAvail |-> 0, units |-> <<0, 3>>, unitsAvail |-> <<0, 3>>] }

\* the orders the other traders may have pending
OtherOrderUniverse ==
    { [side |-> "SELL", market |-> 2, price |-> 515, units |-> 3],
      [side |-> "BUY", market |-> 2, price |-> 505, units |-> 3] }

\* the books the venue shows: empty, or both orders
Books == { {}, OtherOrderUniverse }

Init ==
    /\ payoffs = LifePayoffs
    /\ riskNum = RISK_NUM
    /\ holdings = NoHoldings
    /\ bestBid = EmptyDict
    /\ bestAsk = EmptyDict
    /\ covMatrix = NoMatrix
    /\ expPayoffs = NoMatrix
    /\ searchRet = NoSearch
    /\ time = 0
    /\ orderCount = 0
    /\ waiting = FALSE
    /\ fairBuy = EmptyDict
    /\ fairSell = EmptyDict
    /\ myOrders = [o \in OrderIds |-> NoOrder]
    /\ cancels = [o \in OrderIds |-> 0]
    /\ otherOrders = {}
    /\ cancelDecr = [o \in OrderIds |-> 0]
    /\ last = NoLast
    /\ prospOrders = <<>>
    /\ evalRet = NoEval

\* the clock advances
Tick ==
    /\ time < MaxTime
    /\ time' = time + 1
    /\ last' = Done("tick", 0, BotState)
    /\ UNCHANGED <<evalVars, pureVars, orderCount, waiting, fairBuy, fairSell, myOrders,
                   cancels, otherOrders, cancelDecr>>

\* received_session_info without the assignment to _start_time
ReceivedSessionInfoKeepsClock(is_open) ==
    /\ covMatrix' = FindCovMatrix(payoffs)
    /\ expPayoffs' = FindExpPayoffsMatrix(payoffs)
    /\ last' = Done("session", IF is_open THEN 1 ELSE 0, BotState)
    /\ UNCHANGED <<evalVars, payoffs, riskNum, holdings, bestBid, bestAsk, searchRet, time,
                   orderCount, waiting, fairBuy, fairSell, myOrders, cancels,
                   otherOrders, cancelDecr>>

\* received_session_info
ReceivedSessionInfo(is_open) ==
    /\ covMatrix' = FindCovMatrix(payoffs)
    /\ expPayoffs' = FindExpPayoffsMatrix(payoffs)
    /\ time' = IF is_open THEN 0 ELSE time
    /\ last' = Done("session", IF is_open THEN 1 ELSE 0, BotState)
    /\ UNCHANGED <<evalVars, payoffs, riskNum, holdings, bestBid, bestAsk, searchRet,
                   orderCount, waiting, fairBuy, fairSell, myOrders, cancels,
                   otherOrders, cancelDecr>>

\* received_holdings with snapshot h (the payoff model must be there:
\* _find_performance fails without it)
ReceivedHoldings(h) ==
    LET orders == NoteSale(h, orderCount)
        st == [BotState EXCEPT !.count = IF orders # <<>> THEN @ + NOTE_COUNT_INC
                                                          ELSE @]
    IN  /\ covMatrix # NoMatrix
        /\ NumCreated + Len(orders) <= MaxOrders
        /\ holdings' = HoldingsAfterFairPrices(h, 1)
        /\ fairBuy' = [m \in Markets |-> FindFairPrice(m, h, "BUY")]
        /\ fairSell' = [m \in Markets |-> FindFairPrice(m, h, "SELL")]
        /\ myOrders' = SendLimitOrders(myOrders, orders)
        /\ orderCount' = st.count
        /\ last' = [Done("holdings", 0, st) EXCEPT !.sent = orders]
        /\ UNCHANGED <<evalVars, payoffs, riskNum, bestBid, bestAsk, covMatrix, expPayoffs,
                       searchRet, time, waiting, cancels, otherOrders, cancelDecr>>

\* received_orders when the other traders' pending orders are book
ReceivedOrders(book) ==
    LET my_orders == IdList(MyPending)
        \* "if self._reactive_condition and ...": the method is not called,
        \* and a bound method is true
        st1 == IF Len(my_orders) # 0 THEN StaleLoop(BotState, my_orders, book)
                                     ELSE BotState
        g == MmCondition(st1, time)
        st2 == IF g.ret /\ Len(my_orders) # 0 THEN ClearOrders(g.st) ELSE g.st
    IN  /\ \A o \in OrderIds : st2.cancels[o] <= MaxCancels
        /\ otherOrders' = book
        /\ bestBid' = [m \in Markets |->
                          GetBestBid(OrdersInMarket(CurrentOrders(book), m))]
        /\ bestAsk' = [m \in Markets |->
                          GetBestAsk(OrdersInMarket(CurrentOrders(book), m))]
        /\ orderCount' = st2.count
        /\ waiting' = st2.waiting
        /\ cancels' = st2.cancels
        /\ last' = [Done("orders", 0, st2) EXCEPT
                      !.mmCalled = TRUE, !.mmRet = g.ret,
                      !.mmCleared = g.st.cleared, !.sweep = st1.sentC]
        /\ UNCHANGED <<evalVars, payoffs, riskNum, holdings, covMatrix, expPayoffs, searchRet,
                       time, fairBuy, fairSell, myOrders, cancelDecr>>

\* the 7-second timer: _mm_condition, then _mm_strategy if it holds
MmTick ==
    LET g == MmCondition(BotState, time)
        orders == IF g.ret THEN MmStrategy(time) ELSE <<>>
        st == [g.st EXCEPT !.count = @ + Len(orders)]
    IN  /\ \A o \in OrderIds : g.st.cancels[o] <= MaxCancels
        /\ NumCreated + Len(orders) <= MaxOrders
        /\ myOrders' = SendLimitOrders(myOrders, orders)
        /\ orderCount' = st.count
        /\ waiting' = st.waiting
        /\ cancels' = st.cancels
        /\ last' = [Done("mm", 0, st) EXCEPT
                      !.mmCalled = TRUE, !.mmRet = g.ret,
                      !.mmCleared = g.st.cleared, !.startZero = (g.st.count = 0),
                      !.sent = orders]
        /\ holdings' = IF g.ret /\ holdings # NoHoldings
                       THEN HoldingsAfterPerformance(holdings, <<>>) ELSE holdings
        /\ UNCHANGED <<evalVars, payoffs, riskNum, bestBid, bestAsk, covMatrix, expPayoffs,
                       searchRet, time, fairBuy, fairSell, otherOrders, cancelDecr>>

\* the 5-second timer: _reactive_condition, then _reactive_strategy if it
\* holds (without holdings is_portfolio_optimal fails and nothing is sent)
ReactiveTick ==
    LET g == ReactiveCondition(BotState, time)
        run == g.ret /\ holdings # NoHoldings
        found == IF run THEN IsPortfolioOptimal(holdings, bestAsk, bestBid)
                        ELSE NoSearch
        orders == IF run THEN ReactiveStrategy(found) ELSE <<>>
        st == [g.st EXCEPT !.count = @ + Len(orders)]
    IN  /\ NumCreated + Len(orders) <= MaxOrders
        /\ myOrders' = SendLimitOrders(myOrders, orders)
        /\ orderCount' = st.count
        /\ waiting' = st.waiting
        /\ last' = [Done("reactive", 0, st) EXCEPT
                      !.rcCalled = TRUE, !.rcRet = g.ret,
                      !.startZero = (g.st.count = 0),
                      !.sent = orders, !.search = found]
        /\ holdings' = IF run THEN HoldingsAfterSearch(holdings, bestAsk, bestBid)
                              ELSE holdings
        /\ UNCHANGED <<evalVars, payoffs, riskNum, bestBid, bestAsk, covMatrix, expPayoffs,
                       searchRet, time, fairBuy, fairSell, cancels, otherOrders,
                       cancelDecr>>

\* the 30-second timer: _unstuck_bot
UnstuckTick ==
    /\ waiting' = UnstuckBot(BotState).waiting
    /\ last' = Done("unstuck", 0, UnstuckBot(BotState))
    /\ UNCHANGED <<evalVars, pureVars, time, orderCount, fairBuy, fairSell, myOrders, cancels,
                   otherOrders, cancelDecr>>

\* the venue accepts limit order o: order_accepted
VenueAcceptLimit(o) ==
    LET st == OrderAccepted(BotState, "LIMIT")
    IN  /\ myOrders[o].status = "sent"
        /\ myOrders' = [myOrders EXCEPT ![o].status = "pending"]
        /\ orderCount' = st.count
        /\ waiting' = st.waiting
        /\ last' = Done("accept_limit", o, st)
        /\ UNCHANGED <<evalVars, pureVars, time, fairBuy, fairSell, cancels, otherOrders,
                       cancelDecr>>

\* the venue rejects limit order o: order_rejected
VenueRejectLimit(o) ==
    LET st == OrderRejected(BotState, myOrders[o])
    IN  /\ myOrders[o].status = "sent"
        /\ myOrders' = [myOrders EXCEPT ![o].status = "rejected"]
        /\ orderCount' = st.count
        /\ waiting' = st.waiting
        /\ last' = [Done("reject_limit", o, st) EXCEPT !.msg = RejectMessage(myOrders[o])]
        /\ UNCHANGED <<evalVars, pureVars, time, fairBuy, fairSell, cancels, otherOrders,
                       cancelDecr>>

\* the venue accepts a cancel of order o: order_accepted.  A cancel of an
\* order that is no longer pending may be accepted or rejected
VenueAcceptCancel(o) ==
    LET st == OrderAccepted(BotState, "CANCEL")
    IN  /\ cancels[o] > 0
        /\ cancels' = [cancels EXCEPT ![o] = @ - 1]
        /\ myOrders' = [myOrders EXCEPT ![o].status =
                           IF @ = "pending" THEN "cancelled" ELSE @]
        /\ orderCount' = st.count
        /\ waiting' = st.waiting
        /\ cancelDecr' = [cancelDecr EXCEPT ![o] = @ + (orderCount - st.count)]
        /\ last' = Done("accept_cancel", o, st)
        /\ UNCHANGED <<evalVars, pureVars, time, fairBuy, fairSell, otherOrders>>

\* the venue rejects a cancel of order o, which is no longer pending:
\* order_rejected
VenueRejectCancel(o) ==
    LET st == OrderRejected(BotState, myOrders[o])
    IN  /\ cancels[o] > 0
        /\ myOrders[o].status # "pending"
        /\ cancels' = [cancels EXCEPT ![o] = @ - 1]
        /\ orderCount' = st.count
        /\ waiting' = st.waiting
        /\ cancelDecr' = [cancelDecr EXCEPT ![o] = @ + (orderCount - st.count)]
        /\ last' = [Done("reject_cancel", o, st) EXCEPT !.msg = RejectMessage(myOrders[o])]
        /\ UNCHANGED <<evalVars, pureVars, time, fairBuy, fairSell, myOrders, otherOrders>>

Next ==
    \/ Tick
    \/ \E is_open \in BOOLEAN : ReceivedSessionInfo(is_open)
    \/ \E h \in LifeHoldings : ReceivedHoldings(h)
    \/ \E book \in Books : ReceivedOrders(book)
    \/ MmTick
    \/ ReactiveTick
    \/ UnstuckTick
    \/ \E o \in OrderIds : VenueAcceptLimit(o)
    \/ \E o \in OrderIds : VenueRejectLimit(o)
    \/ \E o \in OrderIds : VenueAcceptCancel(o)
    \/ \E o \in OrderIds : VenueRejectCancel(o)

Spec == Init /\ [][Next]_vars

\* execute_periodically(self._unstuck_bot, 30): the watchdog timer keeps
\* firing; nothing is assumed of the venue or of the other timers
SpecWatchdog == Spec /\ WF_vars(UnstuckTick)

----------------------------------------------------------------------------
(* Inputs of the pure functions *)

CashStep == 400

\* market 1 is a risky stock; market 2 (the highest id) is the note, or a
\* second stock that pays in the opposite scenarios
PayoffTables == { << <<0, 1000>>, <<500, 500>> >>,
                  << <<0, 1000>>, <<1000, 0>> >> }

\* (price, units) of the quotes other traders may show
QuotePU == { <<300, 1>>, <<480, 2>> }

QuotesOf(oside, m) ==
    {NoQuote} \cup { [side |-> oside, market |-> m, price |-> pu[1], units |-> pu[2]]
                     : pu \in QuotePU }

\* the snapshots the venue may deliver: part of the cash and of the units
\* may be reserved for pending orders
HoldingsSet ==
    { [cash |-> CashStep * MaxCashSteps, cashAvail |-> CashStep * ca,
       units |-> u, unitsAvail |-> ua] :
        ca \in 0..MaxCashSteps,
        u \in [Markets -> 0..MaxUnits], ua \in [Markets -> 0..MaxUnits] }

HoldingsInputs ==
    { h \in HoldingsSet : \A m \in Markets : h.unitsAvail[m] <= h.units[m] }

SearchInit ==
    /\ payoffs \in PayoffTables
    /\ riskNum \in {0, RISK_NUM}
    /\ holdings \in HoldingsInputs
    /\ bestAsk \in [Markets -> UNION { QuotesOf("SELL", m) : m \in Markets }]
    /\ \A m \in Markets : bestAsk[m] \in QuotesOf("SELL", m)
    /\ bestBid \in [Markets -> UNION { QuotesOf("BUY", m) : m \in Markets }]
    /\ \A m \in Markets : bestBid[m] \in QuotesOf("BUY", m)
    /\ covMatrix = FindCovMatrix(payoffs)
    /\ expPayoffs = FindExpPayoffsMatrix(payoffs)
    /\ searchRet = NoSearch
    /\ time = 0
    /\ orderCount = 0
    /\ waiting = FALSE
    /\ fairBuy = EmptyDict
    /\ fairSell = EmptyDict
    /\ myOrders = [o \in OrderIds |-> NoOrder]
    /\ cancels = [o \in OrderIds |-> 0]
    /\ otherOrders = {}
    /\ cancelDecr = [o \in OrderIds |-> 0]
    /\ last = NoLast
    /\ prospOrders = <<>>
    /\ evalRet = NoEval

\* a call of is_portfolio_optimal(return_combo = True)
CallIsPortfolioOptimal ==
    /\ ~ searchRet.called
    /\ searchRet' = IsPortfolioOptimal(holdings, bestAsk, bestBid)
    /\ holdings' = HoldingsAfterSearch(holdings, bestAsk, bestBid)
    /\ UNCHANGED <<payoffs, riskNum, bestBid, bestAsk, covMatrix, expPayoffs,
                   lifeVars, evalVars>>

\* a run of _reactive_strategy
CallReactiveStrategy ==
    LET found == IsPortfolioOptimal(holdings, bestAsk, bestBid)
        orders == ReactiveStrategy(found)
    IN  /\ ~ searchRet.called
        /\ searchRet' = found
        /\ evalRet' = [NoEval EXCEPT !.op = "reactive_strategy",
                                     !.default = orderCount, !.sent = orders]
        /\ orderCount' = orderCount + Len(orders)
        /\ holdings' = HoldingsAfterSearch(HoldingsAfterPerformance(holdings, <<>>),
                                           bestAsk, bestBid)
        /\ UNCHANGED <<payoffs, riskNum, bestBid, bestAsk, covMatrix, expPayoffs,
                       time, waiting, fairBuy, fairSell, myOrders, cancels,
                       otherOrders, cancelDecr, last, prospOrders>>

SearchNext == CallIsPortfolioOptimal \/ CallReactiveStrategy

SpecSearch == SearchInit /\ [][SearchNext]_vars

----------------------------------------------------------------------------
(* The evaluators called on their own: _check_holdings, _find_performance, *)
(* _adj_cash and _find_fair_price on every input of a bounded set          *)

\* longest list of prospective orders
MaxProspLen == 2

EvalPayoffTables == { << <<100, 200, 300>>, <<500, 500, 500>> >>,
                      << <<0, 1000>>, <<1000, 0>> >> }

\* (price, units) of the prospective orders
EvalPU == { <<300, 1>>, <<400, 2>> }

EvalOrders ==
    { MakeOrder(m, oside, pu[1], pu[2]) :
        m \in Markets, oside \in {"BUY", "SELL"}, pu \in EvalPU }

\* units of a large position in the first security
LargeUnits == 8

\* a snapshot with a large position in the first security, all of it
\* available
LargeHoldings ==
    { [cash |-> CashStep * MaxCashSteps, cashAvail |-> CashStep * MaxCashSteps,
       units |-> [m \in Markets |-> IF m = 1 THEN LargeUnits ELSE 1],
       unitsAvail |-> [m \in Markets |-> IF m = 1 THEN LargeUnits ELSE 1]] }

EvalOrderLists ==
    UNION { [1..n -> EvalOrders] : n \in 0..MaxProspLen }

EvalInit ==
    /\ payoffs \in EvalPayoffTables
    /\ riskNum \in {0, RISK_NUM}
    /\ holdings \in HoldingsInputs \cup LargeHoldings
    /\ prospOrders \in EvalOrderLists
    /\ covMatrix = FindCovMatrix(payoffs)
    /\ expPayoffs = FindExpPayoffsMatrix(payoffs)
    /\ evalRet = NoEval
    /\ bestAsk = EmptyDict
    /\ bestBid = EmptyDict
    /\ searchRet = NoSearch
    /\ time = 0
    /\ orderCount = 0
    /\ waiting = FALSE
    /\ fairBuy = [m \in Markets |-> FindFairPrice(m, holdings, "BUY")]
    /\ fairSell = [m \in Markets |-> FindFairPrice(m, holdings, "SELL")]
    /\ myOrders = [o \in OrderIds |-> NoOrder]
    /\ cancels = [o \in OrderIds |-> 0]
    /\ otherOrders = {}
    /\ cancelDecr = [o \in OrderIds |-> 0]
    /\ last = NoLast

\* a call of _check_holdings on the first prospective order
CallCheckHoldings ==
    /\ evalRet = NoEval /\ prospOrders # <<>>
    /\ evalRet' = [NoEval EXCEPT !.op = "check_holdings",
                                 !.value = CheckHoldings(Head(prospOrders), holdings)]
    /\ UNCHANGED <<pureVars, lifeVars, prospOrders>>

\* _find_performance(holdings, prosp_orders) and _find_performance(holdings)
CallFindPerformance ==
    /\ evalRet = NoEval
    /\ evalRet' = [NoEval EXCEPT !.op = "performance",
                                 !.value = FindPerformance(holdings, prospOrders),
                                 !.default = FindPerformanceNoOrders(holdings)]
    /\ holdings' = HoldingsAfterPerformance(
                       HoldingsAfterPerformance(holdings, prospOrders), <<>>)
    /\ UNCHANGED <<payoffs, riskNum, bestBid, bestAsk, covMatrix, expPayoffs,
                   searchRet, lifeVars, prospOrders>>

\* _adj_cash(holdings.cash, prosp_orders)
CallAdjCash ==
    /\ evalRet = NoEval
    /\ evalRet' = [NoEval EXCEPT !.op = "adj_cash",
                                 !.value = AdjCash(holdings.cash, prospOrders)]
    /\ UNCHANGED <<pureVars, lifeVars, prospOrders>>

\* _find_fair_price(market_id, holdings, oside)
CallFindFairPrice(market_id, oside) ==
    /\ evalRet = NoEval
    /\ evalRet' = [NoEval EXCEPT !.op = "fair_price",
                                 !.value = FindFairPrice(market_id, holdings, oside),
                                 !.market = market_id, !.side = oside]
    /\ UNCHANGED <<pureVars, lifeVars, prospOrders>>

\* elapsed times of the market-making window, in grid points of
\* _find_margin: after the start-up interval, the middle, before the end
MmEvalTimes == {7, 100, 199}

\* _mm_strategy at num / MarginTicksPerMinute minutes, with the fair prices
\* received_holdings has stored for the holdings
CallMmStrategy(num) ==
    LET orders == MmStrategyAt(FindMarginAt(num, MarginTicksPerMinute))
    IN  /\ evalRet = NoEval /\ prospOrders = <<>>
        /\ evalRet' = [NoEval EXCEPT !.op = "mm_strategy", !.arg = num,
                                     !.default = orderCount, !.sent = orders]
        /\ orderCount' = orderCount + Len(orders)
        /\ holdings' = HoldingsAfterPerformance(holdings, <<>>)
        /\ UNCHANGED <<payoffs, riskNum, bestBid, bestAsk, covMatrix, expPayoffs,
                       searchRet, time, waiting, fairBuy, fairSell, myOrders,
                       cancels, otherOrders, cancelDecr, last, prospOrders>>

\* _flip_oside(prosp_orders)
CallFlipOside ==
    /\ evalRet = NoEval
    /\ evalRet' = [NoEval EXCEPT !.op = "flip_oside", !.sent = FlipOside(prospOrders)]
    /\ UNCHANGED <<pureVars, lifeVars, prospOrders>>

EvalNext ==
    \/ CallFlipOside
    \/ \E num \in MmEvalTimes : CallMmStrategy(num)
    \/ CallCheckHoldings
    \/ CallFindPerformance
    \/ CallAdjCash
    \/ \E m \in Markets, oside \in {"BUY", "SELL"} : CallFindFairPrice(m, oside)

SpecEval == EvalInit /\ [][EvalNext]_vars

----------------------------------------------------------------------------
(* _find_margin called on its own, on a grid of elapsed times over the     *)
(* market-making window                                                    *)

\* time_max = session_time * MM_PROPORTION, on the grid
MarginTimeMax ==
    (MM_PROPORTION_NUM * SESSION_TIME * MarginTicksPerMinute) \div MM_PROPORTION_DEN

MarginInit ==
    /\ payoffs = LifePayoffs
    /\ riskNum = RISK_NUM
    /\ holdings = NoHoldings
    /\ bestAsk = EmptyDict
    /\ bestBid = EmptyDict
    /\ covMatrix = NoMatrix
    /\ expPayoffs = NoMatrix
    /\ searchRet = NoSearch
    /\ time = 0
    /\ orderCount = 0
    /\ waiting = FALSE
    /\ fairBuy = EmptyDict
    /\ fairSell = EmptyDict
    /\ myOrders = [o \in OrderIds |-> NoOrder]
    /\ cancels = [o \in OrderIds |-> 0]
    /\ otherOrders = {}
    /\ cancelDecr = [o \in OrderIds |-> 0]
    /\ last = NoLast
    /\ prospOrders = <<>>
    /\ evalRet = NoEval

\* _find_margin(num / MarginTicksPerMinute)
CallFindMargin(num) ==
    /\ evalRet' = [NoEval EXCEPT !.op = "margin", !.arg = num,
                                 !.value = FindMarginAt(num, MarginTicksPerMinute)]
    /\ UNCHANGED <<pureVars, lifeVars, prospOrders>>

MarginNext == \E num \in 0..MarginTimeMax : CallFindMargin(num)

SpecMargin == MarginInit /\ [][MarginNext]_vars

----------------------------------------------------------------------------
(* Claims about the optimality search *)

\* the index subsets of the best quotes, each in increasing order
IsIncreasing(idx) == \A k \in 1..(Len(idx) - 1) : idx[k] < idx[k + 1]

SubsetsOf(best_quotes) ==
    LET all == AllCombos(Len(best_quotes))
    IN  { ComboOf(best_quotes, all[k]) : k \in 1..Len(all) }

\* feasibility, stated on the counter-trades directly
BuyPriceSum(orders) ==
    SumSeq([k \in 1..Len(orders) |->
               IF orders[k].side = "BUY" THEN orders[k].price ELSE 0])

SellCount(orders, m) ==
    Cardinality({ k \in 1..Len(orders) :
                    orders[k].side = "SELL" /\ orders[k].market = m })

Feasible(h, orders) ==
    /\ BuyPriceSum(orders) <= h.cashAvail
    /\ \A m \in Markets : SellCount(orders, m) <= h.unitsAvail[m]

Improves(h, orders) == FindPerformance(h, orders) > FindPerformanceNoOrders(h)

Candidates(h, best_quotes) ==
    { c \in SubsetsOf(best_quotes) :
        Improves(h, FlipOside(c)) /\ Feasible(h, FlipOside(c)) }

\* C1: a combo returned by the search is feasible and strictly improving:
\* the buy counter-trades cost at most cash_available and no security has
\* more sell counter-trades than units_available (none when that is 0)
C1_ReturnedComboFeasible ==
    (searchRet.called /\ ~ searchRet.optimal) =>
        /\ Improves(holdings, FlipOside(searchRet.combo))
        /\ Feasible(holdings, FlipOside(searchRet.combo))
        /\ \A m \in Markets : holdings.unitsAvail[m] = 0 =>
               SellCount(FlipOside(searchRet.combo), m) = 0

\* a search that returned a combo although a profitable sell counter-trade
\* was excluded because no units of its security are available
C1_Witness ==
    /\ searchRet.called /\ ~ searchRet.optimal
    /\ \E m \in Markets :
         /\ holdings.unitsAvail[m] = 0
         /\ bestBid[m] # NoQuote
         /\ Improves(holdings, FlipOside(<<bestBid[m]>>))

\* C2: the returned combo is a candidate of greatest performance among all
\* candidates, and the search reports optimal exactly when there is none
C2_ReturnedComboIsBest ==
    searchRet.called =>
        LET cands == Candidates(holdings, searchRet.quotes)
            best == FindPerformance(holdings, FlipOside(searchRet.combo))
        IN  /\ searchRet.optimal <=> cands = {}
            /\ ~ searchRet.optimal =>
                 /\ searchRet.combo \in cands
                 /\ \A c \in cands :
                      FindPerformance(holdings, FlipOside(c)) <= best

\* a search with several candidates of different performance
C2_Witness ==
    /\ searchRet.called /\ ~ searchRet.optimal
    /\ \E c \in Candidates(holdings, searchRet.quotes) :
         FindPerformance(holdings, FlipOside(c))
           < FindPerformance(holdings, FlipOside(searchRet.combo))

----------------------------------------------------------------------------
(* Claims about the phase guards *)

\* elapsed time is in [2/30 minute, MM_PROPORTION * session_time)
InMmWindow == ~ InStartup(time) /\ BeforeMmEnd(time)

\* C3 as stated: _mm_condition returns true only in [0, T) with
\* orderCount = 0, and in [0, T) with orderCount # 0 it calls
\* _clear_orders and returns false
C3_Original ==
    last.mmCalled =>
        /\ last.mmRet => (BeforeMmEnd(time) /\ last.cntZero)
        /\ (BeforeMmEnd(time) /\ ~ last.cntZero) => (last.mmCleared /\ ~ last.mmRet)

\* C3 amended: the same with the window [2/30 minute, T); before 2/30
\* minute the guard returns false and does not call _clear_orders
C3_MmGuard ==
    last.mmCalled =>
        /\ last.mmRet => (InMmWindow /\ last.cntZero)
        /\ (InMmWindow /\ ~ last.cntZero) => (last.mmCleared /\ ~ last.mmRet)
        /\ InStartup(time) => (~ last.mmCleared /\ ~ last.mmRet)

\* the guard found orders outstanding in the window and sent a cancel
C3_Witness ==
    /\ last.mmCalled /\ InMmWindow /\ ~ last.cntZero
    /\ last.mmCleared /\ last.sentC # <<>>

\* C4: _reactive_condition returns true only at or after T and with no
\* owned pending order
C4_ReactiveGuard ==
    (last.rcCalled /\ last.rcRet) => (~ BeforeMmEnd(time) /\ MyPending = {})

\* the guard held although orderCount was not 0 when it was called
C4_Witness ==
    last.rcCalled /\ last.rcRet /\ ~ last.cntZero

\* C5: in no state do _mm_condition and _reactive_condition both return
\* true, in whichever order they are called
C5_GuardsExclusive ==
    LET r == ReactiveCondition(BotState, time)
    IN  /\ ~ (MmCondition(BotState, time).ret /\ r.ret)
        /\ ~ (MmCondition(r.st, time).ret /\ r.ret)

\* the reactive strategy ran and left orderCount = 0, so only the time
\* window keeps the market-making guard from holding
C5_Witness ==
    /\ last.rcCalled /\ last.rcRet
    /\ orderCount = 0 /\ MyPending = {}

\* C6: a handler that submits limit orders starts submitting with
\* orderCount = 0
C6_SubmitOnlyFromZero ==
    last.sent # <<>> => last.startZero

\* the reactive strategy submitted after the guard had brought a stale
\* orderCount back to 0
C6_Witness ==
    last.op = "reactive" /\ last.sent # <<>> /\ ~ last.cntZero

----------------------------------------------------------------------------
(* Claims about the acknowledgements *)

\* C7 as stated: after order_accepted with a LIMIT order awaitingResponse
\* is false
C7_Original ==
    last.op = "accept_limit" => ~ waiting

\* C7 amended: order_accepted with a LIMIT order leaves awaitingResponse
\* and orderCount as they were
C7_AcceptLimitKeepsState ==
    last.op = "accept_limit" => (last.waitKept /\ last.dcnt = 0)

\* a limit order was accepted while a cancel was awaited
C7_Witness ==
    last.op = "accept_limit" /\ waiting

\* C8: order_accepted with a CANCEL order decrements orderCount by exactly
\* one and clears awaitingResponse
C8_AcceptCancel ==
    last.op = "accept_cancel" => (last.dcnt = -1 /\ ~ waiting)

\* a cancel was accepted while awaitingResponse was set
C8_Witness ==
    last.op = "accept_cancel" /\ ~ last.waitKept

\* C9: order_rejected decrements orderCount by exactly one, whatever the
\* order and the reason, and submits nothing; a rejected limit order is
\* not pending
C9_Rejected ==
    last.op \in {"reject_limit", "reject_cancel"} =>
        /\ last.dcnt = -1
        /\ last.sent = <<>> /\ last.sentC = <<>>
        /\ last.op = "reject_limit" => myOrders[last.arg].status = "rejected"

\* the cancel of an order that is already cancelled was rejected
C9_Witness ==
    last.op = "reject_cancel" /\ myOrders[last.arg].status = "cancelled"

\* C10: the answers to the cancels of one order decrement orderCount at
\* most once in total
C10_CancelDecrementsOnce ==
    \A o \in OrderIds : cancelDecr[o] <= 1

----------------------------------------------------------------------------
(* Claims about the watchdog and the order lifecycle *)

\* C11: with the watchdog timer firing, awaitingResponse once set is
\* eventually cleared, also when the venue never answers the cancel
C11_WatchdogClears ==
    waiting ~> ~ waiting

\* the watchdog cleared the flag while a cancel was still unanswered
C11_Witness ==
    /\ last.op = "unstuck" /\ ~ last.waitKept /\ ~ waiting
    /\ \E o \in OrderIds : cancels[o] > 0

\* the steps one order may take
OrderSteps ==
    { <<"free", "sent">>, <<"sent", "pending">>, <<"sent", "rejected">>,
      <<"pending", "cancelled">> }

LifecycleStep(o) ==
    LET a == myOrders[o].status
        b == myOrders'[o].status
    IN  /\ a # b => <<a, b>> \in OrderSteps
        /\ cancels'[o] > cancels[o] => a = "pending"
        /\ a \in {"rejected", "cancelled"} => (b = a /\ cancels'[o] <= cancels[o])

\* C12: an order goes created -> submitted -> accepted or rejected, an
\* accepted order may be cancelled, a cancel is submitted only for a
\* pending order, and a rejected or cancelled order is never submitted
\* again nor made the target of a further cancel
C12_OrderLifecycle ==
    [][\A o \in OrderIds : LifecycleStep(o)]_vars

\* _clear_orders ran with the flag clear while an order was rejected or
\* cancelled, and sent no cancel
C12_Witness ==
    /\ \E o \in OrderIds : myOrders[o].status \in {"rejected", "cancelled"}
    /\ last.mmCleared /\ ~ waiting /\ last.sentC = <<>>

----------------------------------------------------------------------------
(* Claims about the evaluator *)

\* the counter-trades of the single best quotes, and no order
ProbeOrders ==
    {<<>>} \cup { FlipOside(<<q>>) :
                   q \in ({ bestAsk[m] : m \in DOMAIN bestAsk }
                           \cup { bestBid[m] : m \in DOMAIN bestBid }) \ {NoQuote} }

C16_EmptyListIsBaseline ==
    (evalRet.op = "performance" /\ prospOrders = <<>>) =>
        evalRet.value = evalRet.default

\* performance was evaluated with the empty list on holdings with cash
\* and units
C16_Witness ==
    /\ evalRet.op = "performance" /\ prospOrders = <<>>
    /\ holdings.cash > 0 /\ \E m \in Markets : holdings.units[m] > 0

\* the sum of the prices of the orders of one side
SidePriceSum(orders, oside) ==
    SumSeq([k \in 1..Len(orders) |->
               IF orders[k].side = oside THEN orders[k].price ELSE 0])

Reversed(orders) == [k \in 1..Len(orders) |-> orders[Len(orders) + 1 - k]]

\* C17: the hypothetical cash is the cash minus the prices of the buy
\* orders plus the prices of the sell orders, each order once at its
\* price, in whatever order the list is
C17_CashLinear ==
    evalRet.op = "adj_cash" =>
        /\ evalRet.value = holdings.cash - SidePriceSum(prospOrders, "BUY")
                                         + SidePriceSum(prospOrders, "SELL")
        /\ AdjCash(holdings.cash, Reversed(prospOrders)) = evalRet.value

\* the cash was adjusted for a buy of several units and a sell
C17_Witness ==
    /\ evalRet.op = "adj_cash" /\ Len(prospOrders) = 2
    /\ prospOrders[1].side = "BUY" /\ prospOrders[1].units > 1
    /\ prospOrders[2].side = "SELL"

----------------------------------------------------------------------------
(* Further claims about the optimality search *)

\* C18: with no best bid and no best ask the search reports optimal and
\* returns no combo
C18_NoQuotesIsOptimal ==
    (searchRet.called /\ \A m \in Markets : bestAsk[m] = NoQuote /\ bestBid[m] = NoQuote)
        => (searchRet.optimal /\ searchRet.combo = <<>>)

\* the search ran without quotes on holdings with units
C18_Witness ==
    /\ searchRet.called /\ searchRet.quotes = <<>> /\ searchRet.optimal
    /\ \E m \in Markets : holdings.units[m] > 0

\* the index tuples of the subsets of n quotes
IndexTuples(n) ==
    { idx \in UNION { [1..r -> 1..n] : r \in 0..n } : IsIncreasing(idx) }

\* tuple a comes before tuple b: smaller first, and within a size in the
\* order of the quote list
EnumeratedBefore(a, b) ==
    \/ Len(a) < Len(b)
    \/ /\ Len(a) = Len(b)
       /\ \E k \in 1..Len(a) : a[k] < b[k] /\ \A j \in 1..(k - 1) : a[j] = b[j]

\* C19: the subsets are enumerated by size and, within a size, in the
\* combination order of the quote list, and of the candidates of greatest
\* performance the first enumerated is returned
C19_FirstMaximumKept ==
    searchRet.called =>
        LET q == searchRet.quotes
            all == AllCombos(Len(q))
            tuples == IndexTuples(Len(q))
            perf == [i \in tuples |-> FindPerformance(holdings, FlipOside(ComboOf(q, i)))]
            cands == { i \in tuples :
                         /\ perf[i] > FindPerformanceNoOrders(holdings)
                         /\ Feasible(holdings, FlipOside(ComboOf(q, i))) }
            best == { i \in cands : \A j \in cands : perf[j] <= perf[i] }
        IN  /\ { all[k] : k \in 1..Len(all) } = tuples
            /\ \A k, l \in 1..Len(all) : k < l => EnumeratedBefore(all[k], all[l])
            /\ ~ searchRet.optimal =>
                  \E i \in best : /\ ComboOf(q, i) = searchRet.combo
                                   /\ \A j \in best \ {i} : EnumeratedBefore(i, j)

\* two candidates of greatest performance, and a combo was returned
C19_Witness ==
    /\ searchRet.called /\ ~ searchRet.optimal
    /\ \E c \in Candidates(holdings, searchRet.quotes) :
          /\ c # searchRet.combo
          /\ FindPerformance(holdings, FlipOside(c))
               = FindPerformance(holdings, FlipOside(searchRet.combo))

----------------------------------------------------------------------------
(* Claims about the fair price *)

\* C20: the fair price is performance(holdings, [one unit on that side at
\* price 0]) - performance(holdings); with risk penalty 0 the fair buy
\* price is the expected payoff, 200 cents for scenarios 100, 200, 300
C20_FairPrice ==
    evalRet.op = "fair_price" =>
        LET m == evalRet.market
            o == [side |-> evalRet.side, market |-> m, price |-> 0, units |-> 1]
        IN  /\ evalRet.value = FindPerformance(holdings, <<o>>)
                                 - FindPerformanceNoOrders(holdings)
            /\ (riskNum = 0 /\ evalRet.side = "BUY") =>
                  /\ evalRet.value * Len(payoffs[m]) = CentScale * SumSeq(payoffs[m])
                  /\ payoffs[m] = <<100, 200, 300>> => evalRet.value = 200 * CentScale

\* the fair buy price of the security with scenarios 100, 200, 300 was
\* derived with risk penalty 0 on holdings that hold units of it
C20_Witness ==
    /\ evalRet.op = "fair_price" /\ evalRet.side = "BUY" /\ riskNum = 0
    /\ payoffs[evalRet.market] = <<100, 200, 300>>
    /\ holdings.units[evalRet.market] > 0
    /\ evalRet.value = 200 * CentScale

----------------------------------------------------------------------------
(* Claims about the market-making quotes *)

\* no later margin of the window is above an earlier one
MarginNotRising ==
    \A u \in 0..evalRet.arg :
        FindMarginAt(u, MarginTicksPerMinute) >= evalRet.value

\* C21 as stated: the margin does not rise over [0, T], is approximately
\* MARGIN_MAX at 0 (within a tenth of MARGIN_MAX), approximately
\* MARGIN_MAX / 2 at T / 2, and near zero at T (within a tenth of
\* MARGIN_MAX)
C21_Original ==
    evalRet.op = "margin" =>
        /\ MarginNotRising
        /\ evalRet.arg = 0 => 10 * evalRet.value >= 9 * MARGIN_MAX
        /\ 2 * evalRet.arg = MarginTimeMax =>
              /\ 20 * evalRet.value >= 9 * MARGIN_MAX
              /\ 20 * evalRet.value <= 11 * MARGIN_MAX
        /\ evalRet.arg = MarginTimeMax => 10 * evalRet.value <= MARGIN_MAX

\* C21 amended: the margin does not rise over [0, T] and stays within
\* 1..MARGIN_MAX; it is MARGIN_MAX / 2 at T / 2; for the session of 10
\* minutes it is 37 at 0 and 14 at T
C21_MarginCurve ==
    evalRet.op = "margin" =>
        /\ MarginNotRising
        /\ evalRet.value >= 1 /\ evalRet.value <= MARGIN_MAX
        /\ 2 * evalRet.arg = MarginTimeMax => 2 * evalRet.value = MARGIN_MAX
        /\ evalRet.arg = 0 => evalRet.value = 37
        /\ evalRet.arg = MarginTimeMax => evalRet.value = 14

\* the margin at the end of the window, below the margin at its start
C21_Witness ==
    /\ evalRet.op = "margin" /\ evalRet.arg = MarginTimeMax
    /\ evalRet.value < FindMarginAt(0, MarginTicksPerMinute)

\* the margin of the run of _mm_strategy, in scaled cents
MmRunMargin == FindMarginAt(evalRet.arg, MarginTicksPerMinute) * CentScale

\* the orders of one side in one market among those the run submitted
MmSentIn(m, oside) ==
    { k \in 1..Len(evalRet.sent) :
        evalRet.sent[k].market = m /\ evalRet.sent[k].side = oside }

\* C22: one run of _mm_strategy submits at most one order per security and
\* side; a submitted buy has a fair buy price above the margin and costs
\* no more than the available cash; a submitted sell has a positive fair
\* sell value, or a negative one of magnitude above the margin, and no
\* more units than are available; orderCount grows by the number of
\* orders submitted
C22_MmSubmits ==
    evalRet.op = "mm_strategy" =>
        /\ \A m \in Markets, oside \in {"BUY", "SELL"} :
              Cardinality(MmSentIn(m, oside)) <= 1
        /\ \A k \in 1..Len(evalRet.sent) :
              LET o == evalRet.sent[k]
              IN  /\ o.side = "BUY" =>
                        /\ fairBuy[o.market] > MmRunMargin
                        /\ o.price * o.units <= holdings.cashAvail
                  /\ o.side = "SELL" =>
                        /\ \/ fairSell[o.market] > 0
                           \/ - fairSell[o.market] > MmRunMargin
                        /\ o.units <= holdings.unitsAvail[o.market]
        /\ orderCount = evalRet.default + Len(evalRet.sent)

\* a run submitted an order and held back a qualifying buy the available
\* cash does not cover
C22_Witness ==
    /\ evalRet.op = "mm_strategy" /\ evalRet.sent # <<>>
    /\ \E m \in Markets :
          fairBuy[m] > MmRunMargin /\ MmSentIn(m, "BUY") = {}

\* the price of a submitted order is on the tick, and is the tick multiple
\* next below (buy) or next above (sell) the amount fair, in scaled cents
MmPriceRounds(o, fair) ==
    LET tick == MARKET.price_tick
    IN  /\ o.price % tick = 0
        /\ o.side = "BUY" =>
              /\ o.price * CentScale <= fair
              /\ fair < (o.price + tick) * CentScale
        /\ o.side = "SELL" =>
              /\ (o.price - tick) * CentScale < fair
              /\ fair <= o.price * CentScale

\* C25 as stated: every quote is on the tick, a buy at the largest tick
\* multiple <= fairBuy - margin, a sell at the smallest tick multiple
\* >= fairSell_abs + margin, fairSell_abs the magnitude of the fair sell
\* value
C25_Original ==
    evalRet.op = "mm_strategy" =>
        \A k \in 1..Len(evalRet.sent) :
            LET o == evalRet.sent[k]
                fs == fairSell[o.market]
            IN  MmPriceRounds(o, IF o.side = "BUY"
                                 THEN fairBuy[o.market] - MmRunMargin
                                 ELSE (IF fs < 0 THEN - fs ELSE fs) + MmRunMargin)

\* C25 amended: every quote is on the tick, a buy at the largest tick
\* multiple <= fairBuy - margin; a sell at the smallest tick multiple
\* >= -fairSell + margin when the fair sell value is negative, and at the
\* smallest tick multiple >= margin when it is positive
C25_QuoteOnTick ==
    evalRet.op = "mm_strategy" =>
        \A k \in 1..Len(evalRet.sent) :
            LET o == evalRet.sent[k]
                fs == fairSell[o.market]
            IN  MmPriceRounds(o, IF o.side = "BUY"
                                 THEN fairBuy[o.market] - MmRunMargin
                                 ELSE (IF fs < 0 THEN - fs ELSE 0) + MmRunMargin)

\* a run quoted a sell for a positive fair sell value, at a price the
\* rounding put above the margin
C25_Witness ==
    /\ evalRet.op = "mm_strategy"
    /\ \E k \in 1..Len(evalRet.sent) :
          /\ evalRet.sent[k].side = "SELL"
          /\ fairSell[evalRet.sent[k].market] > 0
          /\ evalRet.sent[k].price * CentScale > MmRunMargin

----------------------------------------------------------------------------
(* Claims about the reactive strategy *)

\* the other side of an order side
OtherSide(oside) == CHOOSE x \in {"BUY", "SELL"} : x # oside

\* order o answers quote q: opposite side, same security, same price, one
\* unit
Answers(o, q) ==
    /\ o.side = OtherSide(q.side) /\ o.market = q.market
    /\ o.price = q.price /\ o.units = 1

\* C23: a run of _reactive_strategy submits nothing when the search
\* reports optimal; otherwise it submits one order per quote of the
\* returned combo, in order, each answering its quote; orderCount grows by
\* the number of orders submitted
C23_ReactiveSubmits ==
    evalRet.op = "reactive_strategy" =>
        /\ searchRet.optimal => evalRet.sent = <<>>
        /\ ~ searchRet.optimal =>
              /\ Len(evalRet.sent) = Len(searchRet.combo)
              /\ \A k \in 1..Len(evalRet.sent) :
                    Answers(evalRet.sent[k], searchRet.combo[k])
        /\ orderCount = evalRet.default + Len(evalRet.sent)

\* a run submitted two orders, one of them for a quote of two units
C23_Witness ==
    /\ evalRet.op = "reactive_strategy" /\ Len(evalRet.sent) = 2
    /\ orderCount = evalRet.default + 2
    /\ \E k \in 1..Len(searchRet.combo) : searchRet.combo[k].units = 2

\* C24: _flip_oside returns a list as long as its argument whose k-th
\* order answers the k-th order of the argument, whatever its units; the
\* sides of the list flipped twice are those of the argument
C24_FlipOside ==
    evalRet.op = "flip_oside" =>
        /\ Len(evalRet.sent) = Len(prospOrders)
        /\ \A k \in 1..Len(prospOrders) : Answers(evalRet.sent[k], prospOrders[k])
        /\ Len(FlipOside(evalRet.sent)) = Len(prospOrders)
        /\ \A k \in 1..Len(prospOrders) :
              FlipOside(evalRet.sent)[k].side = prospOrders[k].side

\* a list of a buy and a sell was flipped, one of them of two units
C24_Witness ==
    /\ evalRet.op = "flip_oside" /\ Len(prospOrders) = 2
    /\ prospOrders[1].side # prospOrders[2].side
    /\ prospOrders[1].units = 2
    /\ evalRet.sent[1].units = 1

----------------------------------------------------------------------------
(* Claims about the order book *)

\* the other traders' pending orders of one side in market m
OthersIn(m, oside) ==
    { x \in otherOrders : x.market = m /\ x.side = oside }

----------------------------------------------------------------------------
(* Claims about the payoff model *)

\* the sum of the values of function f over the set S
RECURSIVE SumFn(_, _)
SumFn(f, S) ==
    IF S = {} THEN 0
    ELSE LET x == CHOOSE y \in S : TRUE IN f[x] + SumFn(f, S \ {x})

\* the scaled covariance of the payoffs of markets a and b
CovOf(a, b) ==
    NumScen(payoffs) * DotSeq(payoffs[a], payoffs[b])
      - SumSeq(payoffs[a]) * SumSeq(payoffs[b])

\* the units of market m after the prospective orders are traded
UnitsAfter(m) ==
    holdings.units[m]
      + Cardinality({ k \in 1..Len(prospOrders) :
            prospOrders[k].market = m /\ prospOrders[k].side = "BUY" })
      - Cardinality({ k \in 1..Len(prospOrders) :
            prospOrders[k].market = m /\ prospOrders[k].side # "BUY" })

\* the performance computed security by security, without any vector
PerformanceByMarket ==
    LET n == NumScen(payoffs)
        mean == [m \in Markets |-> UnitsAfter(m) * SumSeq(payoffs[m])]
        risk == [m \in Markets |->
                   SumFn([b \in Markets |-> UnitsAfter(m) * UnitsAfter(b) * CovOf(m, b)],
                         Markets)]
    IN  RISK_DEN * CENTS * n * SumFn(mean, Markets)
          + RISK_DEN * CENTS * n * n * AdjCash(holdings.cash, prospOrders)
          - riskNum * SumFn(risk, Markets)

\* C27: the security of market m has the index of its item name in the
\* expected-payoff vector, in the rows and columns of the covariance
\* matrix, in the unit vector and in the adjustment for an order, so the
\* performance is the one computed security by security
C27_IndexAligned ==
    evalRet.op = "performance" =>
        /\ \A m \in Markets :
              /\ expPayoffs[ITEM_RANK[m]] = SumSeq(payoffs[m])
              /\ UnitHoldings(holdings)[ITEM_RANK[m]] = holdings.units[m]
              /\ AdjHoldings(UnitHoldings(holdings), prospOrders)[ITEM_RANK[m]]
                    = UnitsAfter(m)
              /\ \A b \in Markets :
                    covMatrix[ITEM_RANK[m]][ITEM_RANK[b]] = CovOf(m, b)
        /\ evalRet.value = PerformanceByMarket

\* the performance was evaluated for unequal units of securities with
\* unequal payoffs, with an order in the security of the greater market id
C27_Witness ==
    /\ evalRet.op = "performance" /\ riskNum # 0
    /\ holdings.units[1] # holdings.units[2]
    /\ payoffs[1] # payoffs[2]
    /\ prospOrders # <<>> /\ Head(prospOrders).market = 2
    /\ ITEM_RANK[2] # 2

----------------------------------------------------------------------------
(* Claims about the cancellations *)

\* C28: the stale-order loop of received_orders submits a cancel only in
\* the reactive phase, after the end of the market-making window
C28_SweepOnlyWhenReactive ==
    (last.op = "orders" /\ last.sweep # <<>>) => AfterMmEnd(time)

\* C29: orderCount is never negative
C29_CountNotNegative == orderCount >= 0

\* C30: a handler that submits a cancel started with awaitingResponse
\* false, leaves it true, and submits one cancel only
C30_OneCancelAtATime ==
    last.sentC # <<>> =>
        /\ Len(last.sentC) = 1
        /\ waiting /\ ~ last.waitKept

\* _clear_orders submitted one cancel while two owned orders were pending
C30_Witness ==
    /\ last.mmCleared /\ Len(last.sentC) = 1
    /\ Cardinality(MyPending) >= 2

----------------------------------------------------------------------------
(* Claims about the count of submitted orders *)

\* C31: after a handler that began to submit limit orders with
\* orderCount = 0, orderCount is the number of orders it submitted
C31_CountIsOrdersSent ==
    (last.sent # <<>> /\ last.startZero) => orderCount = Len(last.sent)

\* after a run of the market-making or of the reactive strategy that began
\* with orderCount = 0, orderCount is the number of orders it submitted
StrategiesCountOrders ==
    (last.sent # <<>> /\ last.startZero /\ last.op # "holdings")
        => orderCount = Len(last.sent)

----------------------------------------------------------------------------
(* Claims about the recovery of the market-making guard *)

\* the last handler evaluated _mm_condition, inside the market-making
\* window and with no owned order pending
MmEvaluatedIdle == last.mmCalled /\ InMmWindow /\ MyPending = {}

\* this step evaluates _mm_condition: it returns true, with orderCount = 0
\* before the strategy submits anything
SecondEvaluationHolds ==
    last'.mmCalled => (last'.mmRet /\ orderCount' = Len(last'.sent))

\* C32 as stated: inside the market-making window and with no owned order
\* pending, the second of two consecutive evaluations of _mm_condition
\* returns true with orderCount = 0, whatever orderCount was
C32_Original ==
    [][MmEvaluatedIdle => SecondEvaluationHolds]_vars

\* C32 amended: the same when the handler of the first evaluation
\* submitted no order
C32_GuardRecovers ==
    [][(MmEvaluatedIdle /\ last.sent = <<>>) => SecondEvaluationHolds]_vars

\* the first evaluation found a stale orderCount with no owned order
\* pending and reset it, so that the next evaluation returns true
C32_Witness ==
    /\ MmEvaluatedIdle /\ ~ last.cntZero /\ last.mmCleared /\ ~ last.mmRet
    /\ last.sentC = <<>> /\ orderCount = 0
    /\ MmCondition(BotState, time).ret

====
